---- MODULE Spec2Model ----
(***************************************************************************)
(* The ONLYOFFICE session protocol of backend/src/onlyoffice/routes.js:    *)
(* the /config, /convert/pdf-to-docx and /callback handlers                *)
(* of the express router, the Firebase bucket and the Firestore "docs"     *)
(* collection they write, and the remote converter they poll.              *)
(*                                                                         *)
(* JavaScript strings are sequences of characters (one-character TLA+      *)
(* strings; a fixed literal such as "Bearer " or "/latest.docx" is one     *)
(* element).  Each handler runs without interruption up to its next await, *)
(* so one action is one such run.                                          *)
(***************************************************************************)
EXTENDS Naturals, Sequences, FiniteSets, TLC

(* ------------------------------ bounds -------------------------------- *)

\* Largest reading of Date.now() the model explores.
MaxClock == 1
\* Number of requests the router receives in one run.
MaxRequests == 3
\* Number of /convert/pdf-to-docx requests among them.
MaxConverts == 1
\* Conversion requests are followed one at a time: slot 1 is taken again
\* once its request has been answered.
ConvertSlots == {1}
\* Callback requests are followed two at a time: a slot is taken again once
\* its request has been answered.
CallbackSlots == {1, 2}

(* ------------------------------ strings ------------------------------- *)

\* Number.prototype.toString as the template literal applies it to Date.now().
RECURSIVE Digits(_)
Digits(n) ==
    LET d == <<"0", "1", "2", "3", "4", "5", "6", "7", "8", "9">>
    IN  IF n < 10 THEN <<d[n + 1]>> ELSE Digits(n \div 10) \o <<d[(n % 10) + 1]>>

\* String.prototype.split(sep), for a one-character separator.
RECURSIVE Split(_, _)
Split(s, sep) ==
    IF \A i \in 1..Len(s) : s[i] # sep
    THEN <<s>>
    ELSE LET k == CHOOSE i \in 1..Len(s) :
                      s[i] = sep /\ \A j \in 1..(i - 1) : s[j] # sep
         IN  <<SubSeq(s, 1, k - 1)>> \o Split(SubSeq(s, k + 1, Len(s)), sep)

\* Array destructuring [h, p, s] = parts: a missing element is undefined,
\* which every later test treats like the empty string.
Part(parts, i) == IF i <= Len(parts) THEN parts[i] ELSE <<>>

\* Joins head and body with "." as the template literal `${head}.${body}`.
Dotted(a, b) == a \o <<".">> \o b

(* ------------------------------ inputs -------------------------------- *)

\* Document ids the clients use.
DocIds == {<<"a">>, <<"b">>}
\* A request field that is absent (undefined and "" are both falsy).
Missing == <<>>
\* URLs the external editor hands out for edited bytes.
DownloadUrls == {<<"u", "1">>, <<"u", "2">>}
\* The bytes served at a download URL.
Served(url) == IF url = <<"u", "1">> THEN "B1" ELSE "B2"
\* Callback status codes: 2 MustSave, 6 MustForceSave, 4 closed without changes.
Statuses == {2, 4, 6}
\* process.env.ONLYOFFICE_JWT_SECRET: unset, or the deployment's secret.
Secrets == {<<>>, <<"k", "1">>}
OtherSecret == <<"k", "2">>
\* process.env.ONLYOFFICE_URL: unset, or the document server's base URL.
OnlyofficeUrls == {<<>>, <<"o">>}
\* The source PDF a client asks to convert.
PdfUrls == {<<"p">>}
\* Error codes the converter may report; 0 is not an error.
ErrorCodes == {0, 4}

VARIABLES
    secret,     \* process.env.ONLYOFFICE_JWT_SECRET
    now,        \* the reading of Date.now()
    bucket,     \* admin.storage().bucket(): object path -> bytes
    docs,       \* admin.firestore().collection("docs"): id -> record
    received,   \* the number of requests received so far
    issued,     \* the session keys /config has returned, each with its
                \* document id and the saves applied to it at that moment
    cb,         \* the /callback requests
    applied,    \* per document id, the save callbacks applied so far
    onlyofficeUrl, \* process.env.ONLYOFFICE_URL
    converts,   \* the number of /convert/pdf-to-docx requests received
    cv,         \* the /convert/pdf-to-docx request being followed
    jobs,       \* the remote converter's jobs: conversion key -> state
    bl          \* the /create-blank request being followed

vars == <<secret, now, bucket, docs, received, issued, cb, applied,
          onlyofficeUrl, converts, cv, jobs, bl>>

(* ------------------------------ helpers ------------------------------- *)

\* crypto.createHmac("sha256", secret).update(data).digest("base64") with
\* the base64url replacements: an ideal keyed hash, one string per
\* (secret, data), over an alphabet without ".".
HmacB64Url(secret_, data) ==
    <<"#">> \o secret_ \o <<"#">>
        \o [i \in 1..Len(data) |-> IF data[i] = "." THEN "|" ELSE data[i]]

\* signJwt(payloadObj, secret); b64(header) is "H", b64(payloadObj) is given.
signJwt(body, secret_) ==
    LET head == <<"H">>
        data == Dotted(head, body)
    IN  Dotted(data, HmacB64Url(secret_, data))

\* verifyOnlyOfficeJwt(req, secret), on the Authorization header.
VerifyChecksSchemeOnly(auth, secret_) ==
    LET token == IF Len(auth) > 0 /\ auth[1] = "Bearer " THEN Tail(auth) ELSE <<>>
    IN  token # <<>>
VerifyAcceptsAnySignature(auth, secret_) ==
    LET token == IF Len(auth) > 0 /\ auth[1] = "Bearer " THEN Tail(auth) ELSE <<>>
        parts == Split(token, ".")
    IN  /\ token # <<>>
        /\ Part(parts, 1) # <<>> /\ Part(parts, 2) # <<>> /\ Part(parts, 3) # <<>>
verifyOnlyOfficeJwt(auth, secret_) ==
    LET token == IF Len(auth) > 0 /\ auth[1] = "Bearer " THEN Tail(auth) ELSE <<>>
        parts == Split(token, ".")
        h == Part(parts, 1)
        p == Part(parts, 2)
        s == Part(parts, 3)
    IN  /\ token # <<>>
        /\ h # <<>> /\ p # <<>> /\ s # <<>>
        /\ HmacB64Url(secret_, Dotted(h, p)) = s

\* Authorization headers a caller of /callback may send.
AuthHeaders ==
    { <<>>,
      <<"Basic ", "x">>,
      <<"Bearer ">> \o signJwt(<<"P">>, <<"k", "1">>),
      <<"Bearer ">> \o signJwt(<<"P">>, OtherSecret),
      <<"Bearer ", "H", ".", "P">> }

\* `onlyoffice/${docId}/latest.docx`
ObjectPath(docId) == <<"onlyoffice/">> \o docId \o <<"/latest.docx">>

\* `${docId}:${Date.now()}`
SessionKey(docId, t) == docId \o <<":">> \o Digits(t)

\* file.getSignedUrl({action: "read", expires}): a URL that reads the object
\* at the path.  No handler reads the expiry, nor the serverTimestamp() the
\* records carry in updatedAt, so neither is part of the state.
SignedUrl(path) == <<"signed:">> \o path

\* file.save(buf, ...): the object at the path is replaced.
Save(store, path, buf) ==
    [p \in DOMAIN store \cup {path} |-> IF p = path THEN buf ELSE store[p]]

\* DocumentReference.set(data, {merge: true}): the fields given are written,
\* every other field of the record is kept.
SetOverwrite(coll, id, data) ==
    [d \in DOMAIN coll \cup {id} |-> IF d = id THEN data ELSE coll[d]]
SetMerge(coll, id, data) ==
    LET old == IF id \in DOMAIN coll THEN coll[id] ELSE <<>>
        new == [f \in DOMAIN old \cup DOMAIN data |->
                   IF f \in DOMAIN data THEN data[f] ELSE old[f]]
    IN  [d \in DOMAIN coll \cup {id} |-> IF d = id THEN new ELSE coll[d]]

\* The version field of a record; no handler writes one, an absent field is 0.
RecordVersion(id) ==
    IF id \in DOMAIN docs /\ "version" \in DOMAIN docs[id]
    THEN docs[id]["version"] ELSE 0

\* Save callbacks applied to a document so far.
Applied(id) == IF id \in DOMAIN applied THEN applied[id] ELSE 0

(* ------------------------------- state -------------------------------- *)

NoSignedUrl == <<>>

NoPayload ==
    [async |-> TRUE, url |-> <<>>, filetype |-> "pdf", outputtype |-> "docx",
     key |-> <<>>, title |-> <<>>]

\* A /convert/pdf-to-docx request: its locals, its responses, and, while it
\* runs, what it has sent to the converter (polls: submissions; sent: the
\* distinct payloads among them; started: the remote jobs they started).
IdleConvert ==
    [pc |-> "idle", docId |-> <<>>, pdfUrl |-> <<>>, payload |-> NoPayload,
     i |-> 0, fileUrl |-> <<>>, buf |-> "", signedUrl |-> <<>>, res |-> <<>>,
     polls |-> 0, sent |-> {}, started |-> 0]

\* A /callback request: its locals, its responses, and, once answered, the
\* branch of the handler that answered it (branch).
IdleCallback ==
    [pc |-> "idle", url |-> <<>>, key |-> <<>>,
     docId |-> <<>>, buf |-> "", signedUrl |-> NoSignedUrl, res |-> <<>>,
     branch |-> ""]

\* A /create-blank request: its locals and its responses.  One request is
\* followed at a time.
IdleBlank ==
    [pc |-> "idle", docId |-> <<>>, buf |-> "", signedUrl |-> NoSignedUrl,
     res |-> <<>>]

Init ==
    /\ bl = IdleBlank
    /\ secret \in Secrets
    /\ now = 0
    /\ bucket = <<>>
    /\ docs = <<>>
    /\ received = 0
    /\ issued = {}
    /\ cb = [i \in CallbackSlots |-> IdleCallback]
    /\ applied = <<>>
    /\ onlyofficeUrl \in OnlyofficeUrls
    /\ converts = 0
    /\ cv = [i \in ConvertSlots |-> IdleConvert]
    /\ jobs = <<>>

\* Date.now() advances.
Tick ==
    /\ now < MaxClock
    /\ now' = now + 1
    /\ UNCHANGED <<secret, bucket, docs, received, issued, cb, applied,
                   onlyofficeUrl, converts, cv, jobs, bl>>

(* ------------------------------ /config ------------------------------- *)

\* const key = `${docId}:${Date.now()}`
ConfigKey(docId, t) == SessionKey(docId, t)

\* The handler has no await: the whole request is one step.  A 400 response
\* carries no key; a 200 response carries config.document.key.
ConfigWaitsForConversion(docId, fileUrl, fileType) ==
    /\ \A i \in ConvertSlots : cv[i].pc \in {"idle", "done"}
    /\ received < MaxRequests
    /\ received' = received + 1
    /\ issued' = IF docId = Missing \/ fileUrl = Missing \/ fileType = Missing
                 THEN issued
                 ELSE issued \cup {[docId |-> docId, key |-> ConfigKey(docId, now),
                                    applied |-> Applied(docId)]}
    /\ UNCHANGED <<secret, now, bucket, docs, cb, applied, onlyofficeUrl, converts, cv, jobs, bl>>
ConfigStampsRecord(docId, fileUrl, fileType) ==
    /\ received < MaxRequests
    /\ received' = received + 1
    /\ issued' = IF docId = Missing \/ fileUrl = Missing \/ fileType = Missing
                 THEN issued
                 ELSE issued \cup {[docId |-> docId, key |-> ConfigKey(docId, now),
                                    applied |-> Applied(docId)]}
    /\ docs' = IF docId = Missing \/ fileUrl = Missing \/ fileType = Missing
               THEN docs
               ELSE SetMerge(docs, docId, [lastKey |-> ConfigKey(docId, now)])
    /\ UNCHANGED <<secret, now, bucket, cb, applied, onlyofficeUrl, converts, cv, jobs, bl>>
Config(docId, fileUrl, fileType) ==
    /\ received < MaxRequests
    /\ received' = received + 1
    /\ issued' = IF docId = Missing \/ fileUrl = Missing \/ fileType = Missing
                 THEN issued
                 ELSE issued \cup {[docId |-> docId, key |-> ConfigKey(docId, now),
                                    applied |-> Applied(docId)]}
    /\ UNCHANGED <<secret, now, bucket, docs, cb, applied, onlyofficeUrl, converts, cv, jobs, bl>>

(* ----------------------------- /callback ------------------------------ *)

\* Session keys the external editor can send back: those /config returned.
IssuedKeys == {e.key : e \in issued}

\* res.status(code).json({error: err}); the handler returns and its locals
\* are gone.
Respond(r, code, err) ==
    [IdleCallback EXCEPT !.pc = "done",
                         !.res = Append(r.res, [code |-> code, error |-> err])]

\* The response of the branch named.
RespondAt(branch, code, err) ==
    [Respond(IdleCallback, code, err) EXCEPT !.branch = branch]

\* if (secret && !verifyOnlyOfficeJwt(req, secret))
RejectsWithoutSecret(auth) == ~verifyOnlyOfficeJwt(auth, secret)
MustReject(auth) == secret # <<>> /\ ~verifyOnlyOfficeJwt(auth, secret)

\* if (!downloadUrl || !key)
IncompleteNeedsBoth(url, key) == url = Missing /\ key = Missing
Incomplete(url, key) == url = Missing \/ key = Missing

\* if (status === 2 || status === 6)
MustSaveFromTwo(status) == status >= 2
MustSave(status) == status = 2 \/ status = 6

\* The catch block: res.status(500).json({error: 1}).
CallbackThrowUnanswered(i) ==
    /\ cb' = [cb EXCEPT ![i] = [@ EXCEPT !.pc = "failed"]]
    /\ UNCHANGED <<secret, now, bucket, docs, received, issued, applied,
                   onlyofficeUrl, converts, cv, jobs, bl>>
CallbackThrow(i) ==
    /\ cb' = [cb EXCEPT ![i] = RespondAt("catch", 500, 1)]
    /\ UNCHANGED <<secret, now, bucket, docs, received, issued, applied,
                   onlyofficeUrl, converts, cv, jobs, bl>>

\* The request arrives and runs to its first await or its response.  The
\* body is read only once the credential is accepted, url and key only for
\* status 2 or 6.
CallbackReceive(i, auth, status, url, key) ==
    /\ received < MaxRequests
    /\ cb[i].pc \in {"idle", "done"}
    /\ \A j \in 1..(i - 1) : cb[j].pc \notin {"idle", "done"}
    /\ IF MustReject(auth)
       THEN cb' = [cb EXCEPT ![i] = RespondAt("rejected", 403, 1)]
       ELSE IF ~MustSave(status)
       THEN cb' = [cb EXCEPT ![i] = RespondAt("ignored", 200, 0)]
       ELSE IF Incomplete(url, key)
       THEN cb' = [cb EXCEPT ![i] = RespondAt("incomplete", 200, 0)]
       ELSE cb' = [cb EXCEPT ![i] =
                     [IdleCallback EXCEPT !.url = url, !.key = key,
                               !.docId = Split(key, ":")[1], !.pc = "fetch"]]
    /\ received' = received + 1
    /\ UNCHANGED <<secret, now, bucket, docs, issued, applied,
                   onlyofficeUrl, converts, cv, jobs, bl>>

\* await fetch(downloadUrl) returns; r.ok is checked, the body is read.
CallbackFetched(i, ok) ==
    /\ cb[i].pc = "fetch"
    /\ IF ok
       THEN /\ cb' = [cb EXCEPT ![i] = [@ EXCEPT !.buf = Served(cb[i].url), !.pc = "save"]]
            /\ UNCHANGED <<secret, now, bucket, docs, received, issued, applied,
                   onlyofficeUrl, converts, cv, jobs, bl>>
       ELSE CallbackThrow(i)

\* A save callback whose key was issued before a save that has since been
\* applied to its document.
Stale(i) ==
    /\ cb[i].key \in IssuedKeys
    /\ \A e \in issued : e.key = cb[i].key => e.applied < Applied(cb[i].docId)

\* await file.save(buf) returns or rejects.
CallbackSavedRefusesStale(i, ok) ==
    /\ cb[i].pc = "save"
    /\ IF ok /\ ~Stale(i)
       THEN /\ bucket' = Save(bucket, ObjectPath(cb[i].docId), cb[i].buf)
            /\ cb' = [cb EXCEPT ![i] = [@ EXCEPT !.pc = "sign"]]
            /\ UNCHANGED <<secret, now, docs, received, issued, applied,
                           onlyofficeUrl, converts, cv, jobs, bl>>
       ELSE IF ok
       THEN /\ cb' = [cb EXCEPT ![i] = [@ EXCEPT !.pc = "sign"]]
            /\ UNCHANGED <<secret, now, bucket, docs, received, issued, applied,
                           onlyofficeUrl, converts, cv, jobs, bl>>
       ELSE CallbackThrow(i)
CallbackSaved(i, ok) ==
    /\ cb[i].pc = "save"
    /\ IF ok
       THEN /\ bucket' = Save(bucket, ObjectPath(cb[i].docId), cb[i].buf)
            /\ cb' = [cb EXCEPT ![i] = [@ EXCEPT !.pc = "sign"]]
            /\ UNCHANGED <<secret, now, docs, received, issued, applied,
                            onlyofficeUrl, converts, cv, jobs, bl>>
       ELSE CallbackThrow(i)

\* await file.getSignedUrl(...) returns or rejects.
CallbackSigned(i, ok) ==
    /\ cb[i].pc = "sign"
    /\ IF ok
       THEN /\ cb' = [cb EXCEPT ![i] =
                        [@ EXCEPT !.signedUrl = SignedUrl(ObjectPath(cb[i].docId)),
                                  !.pc = "set"]]
            /\ UNCHANGED <<secret, now, bucket, docs, received, issued, applied,
                   onlyofficeUrl, converts, cv, jobs, bl>>
       ELSE CallbackThrow(i)

\* The fields /callback merges into the record.
CallbackRecord(r) ==
    [docxPath |-> ObjectPath(r.docId), docxUrl |-> r.signedUrl]

\* await docs.doc(docId).set(..., {merge: true}) returns or rejects; then
\* res.json({error: 0}).
CallbackSetRefusesStale(i, ok) ==
    /\ cb[i].pc = "set"
    /\ IF ok /\ ~Stale(i)
       THEN /\ docs' = SetMerge(docs, cb[i].docId, CallbackRecord(cb[i]))
            /\ applied' = Save(applied, cb[i].docId, Applied(cb[i].docId) + 1)
            /\ cb' = [cb EXCEPT ![i] = RespondAt("saved", 200, 0)]
            /\ UNCHANGED <<secret, now, bucket, received, issued,
                            onlyofficeUrl, converts, cv, jobs, bl>>
       ELSE IF ok
       THEN /\ cb' = [cb EXCEPT ![i] = RespondAt("saved", 200, 0)]
            /\ UNCHANGED <<secret, now, bucket, docs, received, issued, applied,
                            onlyofficeUrl, converts, cv, jobs, bl>>
       ELSE CallbackThrow(i)
\* The record update as the handler makes it, whatever the key.
CallbackSet(i, ok) ==
    /\ cb[i].pc = "set"
    /\ IF ok
       THEN /\ docs' = SetMerge(docs, cb[i].docId, CallbackRecord(cb[i]))
            /\ applied' = Save(applied, cb[i].docId, Applied(cb[i].docId) + 1)
            /\ cb' = [cb EXCEPT ![i] = RespondAt("saved", 200, 0)]
            /\ UNCHANGED <<secret, now, bucket, received, issued,
                            onlyofficeUrl, converts, cv, jobs, bl>>
       ELSE CallbackThrow(i)

(* ----------------------- /convert/pdf-to-docx ------------------------- *)

\* for (let i = 0; i < 40; i++)
PollBudget == 40

\* `${docId}-pdf2docx-${Date.now()}`
ConversionKey(docId, t) ==
    docId \o <<"-", "p", "d", "f", "2", "d", "o", "c", "x", "-">> \o Digits(t)

\* The payload object, built once before the loop.
Payload(pdfUrl, key, title) ==
    [async |-> TRUE, url |-> pdfUrl, filetype |-> "pdf", outputtype |-> "docx",
     key |-> key, title |-> IF title = Missing THEN <<"source.pdf">> ELSE title]

\* The payload a poll submits: JSON.stringify(payload) of the loop body.
PollPayloadRebuilt(r, t) == [r.payload EXCEPT !.key = ConversionKey(r.docId, t)]
PollPayload(r, t) == r.payload

\* The remote converter receives a submission: a key it does not know starts
\* a job, a key it knows is a status query.
Submit(js, key) == IF key \in DOMAIN js THEN js ELSE Save(js, key, "running")

\* What the converter's job for a key leaves at its result URL.
ResultUrl(key) == <<"r/">> \o key

\* The JSON bodies the converter can answer with, by the state of the job.
Reply(err, done, url) == [error |-> err, endConvert |-> done, fileUrl |-> url]
Replies(state, key) ==
    CASE state = "running" ->
             {Reply(<<>>, FALSE, Missing), Reply(<<0>>, FALSE, Missing),
              Reply(<<>>, TRUE, ResultUrl(key)), Reply(<<>>, TRUE, Missing)}
             \cup {Reply(<<c>>, FALSE, Missing) : c \in ErrorCodes \ {0}}
             \cup {Reply(<<c>>, TRUE, ResultUrl(key)) : c \in ErrorCodes \ {0}}
      [] state = "done" -> {Reply(<<>>, TRUE, ResultUrl(key))}
      [] state = "doneNoUrl" -> {Reply(<<>>, TRUE, Missing)}
      [] OTHER -> {Reply(<<c>>, FALSE, Missing) : c \in ErrorCodes \ {0}}

\* The state of a job once it has answered with data.
JobAfter(state, data) ==
    IF state # "running" THEN state
    ELSE IF data.error \notin {<<>>, <<0>>} THEN "failed"
    ELSE IF data.endConvert
         THEN IF data.fileUrl # Missing THEN "done" ELSE "doneNoUrl"
         ELSE "running"

\* if (!r.ok)
HttpFailureIgnored(ok) == FALSE
HttpFailed(ok) == ~ok

\* if (data?.error): undefined and 0 are falsy.
ErrorIgnored(data) == FALSE
ErrorTruthy(data) == data.error # <<>> /\ data.error[1] # 0

\* if (!result?.fileUrl), with result = data of the poll that broke the loop.
FileUrlUnchecked(data) == FALSE
NoFileUrl(data) == data.fileUrl = Missing

\* A response of the handler: res.status(code).json({ok, error, details})
\* or res.json({ok: true, docxPath, docxUrl}).
ConvertResponse(code, error, errcode, details, path, url) ==
    [code |-> code, error |-> error, errcode |-> errcode, details |-> details,
     docxPath |-> path, docxUrl |-> url]
Failure(code, error) == ConvertResponse(code, error, <<>>, <<>>, <<>>, <<>>)

\* The handler responds and returns; its locals are gone.
ConvertRespond(r, resp) ==
    [IdleConvert EXCEPT !.pc = "done", !.res = Append(r.res, resp)]

\* One iteration's fetch(converterUrl, {body: JSON.stringify(payload)}).
SendPoll(r, t) ==
    LET body == PollPayload(r, t)
    IN  [r EXCEPT !.pc = "poll", !.polls = @ + 1, !.sent = @ \cup {body},
                  !.started = IF body.key \in DOMAIN jobs THEN @ ELSE @ + 1]

\* The catch block: res.status(500).json({ok: false, error: String(e.message)}).
ConvertThrow(i) ==
    /\ cv' = [cv EXCEPT ![i] = ConvertRespond(@, Failure(500, "exception"))]
    /\ UNCHANGED <<secret, now, bucket, docs, received, issued, cb, applied,
                   onlyofficeUrl, converts, jobs, bl>>

\* The request arrives and runs to its first await (the first poll) or to
\* its response.
ConvertReceive(i, docId, pdfUrl, title) ==
    /\ received < MaxRequests
    /\ converts < MaxConverts
    /\ cv[i].pc \in {"idle", "done"}
    /\ received' = received + 1
    /\ converts' = converts + 1
    /\ IF docId = Missing \/ pdfUrl = Missing
       THEN /\ cv' = [cv EXCEPT ![i] =
                        ConvertRespond(IdleConvert,
                                       Failure(400, "docId and pdfUrl required"))]
            /\ jobs' = jobs
       ELSE IF onlyofficeUrl = Missing
       THEN /\ cv' = [cv EXCEPT ![i] =
                        ConvertRespond(IdleConvert,
                                       Failure(500, "Missing ONLYOFFICE_URL env var"))]
            /\ jobs' = jobs
       ELSE LET key == ConversionKey(docId, now)
                r == [IdleConvert EXCEPT !.docId = docId, !.pdfUrl = pdfUrl,
                                   !.payload = Payload(pdfUrl, key, title), !.i = 0]
            IN  /\ cv' = [cv EXCEPT ![i] = SendPoll(r, now)]
                /\ jobs' = Submit(jobs, PollPayload(r, now).key)
    /\ UNCHANGED <<secret, now, bucket, docs, issued, cb, applied, onlyofficeUrl, bl>>

\* await fetch(converterUrl) and r.json() return: the checks of the loop
\* body, in the order the code makes them.
ConvertPolled(i, threw, ok, data) ==
    /\ cv[i].pc = "poll"
    /\ LET key == cv[i].payload.key
       IN  IF threw
           THEN /\ ok /\ data = Reply(<<>>, FALSE, Missing)
                /\ ConvertThrow(i)
           ELSE /\ data \in Replies(jobs[key], key)
                /\ jobs' = [jobs EXCEPT ![key] = JobAfter(@, data)]
                /\ cv' = [cv EXCEPT ![i] =
                     IF HttpFailed(ok)
                     THEN ConvertRespond(@, ConvertResponse(500, "Converter HTTP",
                                                <<>>, <<data>>, <<>>, <<>>))
                     ELSE IF ErrorTruthy(data)
                     THEN ConvertRespond(@, ConvertResponse(500, "Conversion error code",
                                                data.error, <<data>>, <<>>, <<>>))
                     ELSE IF data.endConvert
                     THEN IF NoFileUrl(data)
                          THEN ConvertRespond(@, Failure(504, "Conversion timeout (try again)"))
                          ELSE [@ EXCEPT !.fileUrl = data.fileUrl, !.pc = "download"]
                     ELSE [@ EXCEPT !.pc = "sleep"]]
                /\ UNCHANGED <<secret, now, bucket, docs, received, issued, cb,
                               applied, onlyofficeUrl, converts, bl>>

\* await sleep(1500) returns; i++; the loop test; the next poll or, with the
\* budget used up and result still null, the 504.
ConvertWake(i) ==
    /\ cv[i].pc = "sleep"
    /\ LET r == [cv[i] EXCEPT !.i = @ + 1]
       IN  IF r.i < PollBudget
           THEN /\ cv' = [cv EXCEPT ![i] = SendPoll(r, now)]
                /\ jobs' = Submit(jobs, PollPayload(r, now).key)
           ELSE /\ cv' = [cv EXCEPT ![i] =
                            ConvertRespond(r, Failure(504, "Conversion timeout (try again)"))]
                /\ jobs' = jobs
    /\ UNCHANGED <<secret, now, bucket, docs, received, issued, cb, applied,
                   onlyofficeUrl, converts, bl>>

\* await fetch(result.fileUrl) returns: docxResp.ok is checked, the body read.
ConvertDownloaded(i, threw, ok) ==
    /\ cv[i].pc = "download"
    /\ IF threw
       THEN ok /\ ConvertThrow(i)
       ELSE /\ cv' = [cv EXCEPT ![i] =
                 IF ok THEN [@ EXCEPT !.buf = "DOCX", !.pc = "save"]
                 ELSE ConvertRespond(@, Failure(500, "Failed to download converted DOCX"))]
            /\ UNCHANGED <<secret, now, bucket, docs, received, issued, cb, applied,
                           onlyofficeUrl, converts, jobs, bl>>

\* await file.save(buf) returns or rejects.
ConvertSavedPerAttempt(i, ok) ==
    /\ cv[i].pc = "save"
    /\ IF ok
       THEN /\ bucket' = Save(bucket, ObjectPath(cv[i].payload.key), cv[i].buf)
            /\ cv' = [cv EXCEPT ![i] = [@ EXCEPT !.pc = "sign"]]
            /\ UNCHANGED <<secret, now, docs, received, issued, cb, applied,
                           onlyofficeUrl, converts, jobs, bl>>
       ELSE ConvertThrow(i)
ConvertSaved(i, ok) ==
    /\ cv[i].pc = "save"
    /\ IF ok
       THEN /\ bucket' = Save(bucket, ObjectPath(cv[i].docId), cv[i].buf)
            /\ cv' = [cv EXCEPT ![i] = [@ EXCEPT !.pc = "sign"]]
            /\ UNCHANGED <<secret, now, docs, received, issued, cb, applied,
                           onlyofficeUrl, converts, jobs, bl>>
       ELSE ConvertThrow(i)

\* await file.getSignedUrl(...) returns or rejects.
ConvertSigned(i, ok) ==
    /\ cv[i].pc = "sign"
    /\ IF ok
       THEN /\ cv' = [cv EXCEPT ![i] =
                        [@ EXCEPT !.signedUrl = SignedUrl(ObjectPath(cv[i].docId)),
                                  !.pc = "set"]]
            /\ UNCHANGED <<secret, now, bucket, docs, received, issued, cb, applied,
                           onlyofficeUrl, converts, jobs, bl>>
       ELSE ConvertThrow(i)

\* The fields /convert/pdf-to-docx merges into the record.
ConvertRecord(r) ==
    [docxPath |-> ObjectPath(r.docId), docxUrl |-> r.signedUrl,
     sourcePdfUrl |-> r.pdfUrl]

\* await docs.doc(docId).set(..., {merge: true}) returns or rejects; then
\* res.json({ok: true, docxPath, docxUrl}).
ConvertSet(i, ok) ==
    /\ cv[i].pc = "set"
    /\ IF ok
       THEN /\ docs' = SetMerge(docs, cv[i].docId, ConvertRecord(cv[i]))
            /\ cv' = [cv EXCEPT ![i] =
                        ConvertRespond(@, ConvertResponse(200, "", <<>>, <<>>,
                            ObjectPath(cv[i].docId), cv[i].signedUrl))]
            /\ UNCHANGED <<secret, now, bucket, received, issued, cb, applied,
                           onlyofficeUrl, converts, jobs, bl>>
       ELSE ConvertThrow(i)

\* The data a poll can be answered with, whatever the job.
AllReplies ==
    UNION {Replies(st, k) : st \in {"running", "done", "doneNoUrl", "failed"},
                            k \in DOMAIN jobs}

NextConvert ==
    \/ Tick
    \/ \E i \in ConvertSlots, d \in DocIds \cup {Missing},
          u \in PdfUrls \cup {Missing}, t \in {Missing} :
          ConvertReceive(i, d, u, t)
    \/ \E i \in ConvertSlots, threw \in BOOLEAN, ok \in BOOLEAN,
          data \in AllReplies : ConvertPolled(i, threw, ok, data)
    \/ \E i \in ConvertSlots : ConvertWake(i)
    \/ \E i \in ConvertSlots, threw \in BOOLEAN, ok \in BOOLEAN :
          ConvertDownloaded(i, threw, ok)
    \/ \E i \in ConvertSlots, ok \in BOOLEAN : ConvertSaved(i, ok)
    \/ \E i \in ConvertSlots, ok \in BOOLEAN : ConvertSigned(i, ok)
    \/ \E i \in ConvertSlots, ok \in BOOLEAN : ConvertSet(i, ok)

SpecConvert == Init /\ [][NextConvert]_vars

Next ==
    \/ Tick
    \/ \E d \in DocIds \cup {Missing}, u \in {Missing, <<"f">>},
          t \in {Missing, <<"docx">>} : Config(d, u, t)
    \/ \E i \in CallbackSlots, a \in AuthHeaders, s \in Statuses,
          u \in DownloadUrls \cup {Missing}, k \in IssuedKeys \cup {Missing} :
          CallbackReceive(i, a, s, u, k)
    \/ \E i \in CallbackSlots, ok \in BOOLEAN : CallbackFetched(i, ok)
    \/ \E i \in CallbackSlots, ok \in BOOLEAN : CallbackSaved(i, ok)
    \/ \E i \in CallbackSlots, ok \in BOOLEAN : CallbackSigned(i, ok)
    \/ \E i \in CallbackSlots, ok \in BOOLEAN : CallbackSet(i, ok)

Spec == Init /\ [][Next]_vars

\* The same requests, all served within one reading of the clock.
NextCallback ==
    \/ \E d \in DocIds \cup {Missing}, u \in {Missing, <<"f">>},
          t \in {Missing, <<"docx">>} : Config(d, u, t)
    \/ \E i \in CallbackSlots, a \in AuthHeaders, s \in Statuses,
          u \in DownloadUrls \cup {Missing}, k \in IssuedKeys \cup {Missing} :
          CallbackReceive(i, a, s, u, k)
    \/ \E i \in CallbackSlots, ok \in BOOLEAN : CallbackFetched(i, ok)
    \/ \E i \in CallbackSlots, ok \in BOOLEAN : CallbackSaved(i, ok)
    \/ \E i \in CallbackSlots, ok \in BOOLEAN : CallbackSigned(i, ok)
    \/ \E i \in CallbackSlots, ok \in BOOLEAN : CallbackSet(i, ok)

SpecCallback == Init /\ [][NextCallback]_vars

(* --------------------------- /create-blank ---------------------------- *)

Titles == {Missing, <<"T">>}

\* The packed document: one bold paragraph holding title || "Untitled".
BlankDocx(title) == IF title = Missing THEN "DOCX(Untitled)" ELSE "DOCX(T)"

BlankRespond(r, resp) == [r EXCEPT !.pc = "done", !.res = <<resp>>]

\* The catch block: res.status(500).json({ok: false, error: String(e)}).
BlankThrow ==
    /\ bl' = BlankRespond(bl, Failure(500, "exception"))
    /\ UNCHANGED <<secret, now, bucket, docs, received, issued, cb, applied,
                   onlyofficeUrl, converts, cv, jobs>>

\* The request arrives; the document is built and Packer.toBuffer awaited.
BlankReceive(docId, title, ok) ==
    /\ received < MaxRequests
    /\ bl.pc \in {"idle", "done"}
    /\ received' = received + 1
    /\ bl' = IF docId = Missing
             THEN BlankRespond(IdleBlank, Failure(400, "docId required"))
             ELSE IF ok
             THEN [IdleBlank EXCEPT !.docId = docId, !.buf = BlankDocx(title),
                                    !.pc = "save"]
             ELSE BlankRespond([IdleBlank EXCEPT !.docId = docId],
                               Failure(500, "exception"))
    /\ UNCHANGED <<secret, now, bucket, docs, issued, cb, applied,
                   onlyofficeUrl, converts, cv, jobs>>

\* await file.save(buf) returns or rejects.
BlankSavedUnawaited(ok) ==
    /\ bl.pc = "save"
    /\ IF ok
       THEN /\ bl' = [bl EXCEPT !.pc = "sign"]
            /\ UNCHANGED <<secret, now, bucket, docs, received, issued, cb, applied,
                           onlyofficeUrl, converts, cv, jobs>>
       ELSE BlankThrow
BlankSaved(ok) ==
    /\ bl.pc = "save"
    /\ IF ok
       THEN /\ bucket' = Save(bucket, ObjectPath(bl.docId), bl.buf)
            /\ bl' = [bl EXCEPT !.pc = "sign"]
            /\ UNCHANGED <<secret, now, docs, received, issued, cb, applied,
                           onlyofficeUrl, converts, cv, jobs>>
       ELSE BlankThrow

\* await file.getSignedUrl(...) returns or rejects.
BlankSigned(ok) ==
    /\ bl.pc = "sign"
    /\ IF ok
       THEN /\ bl' = [bl EXCEPT !.signedUrl = SignedUrl(ObjectPath(bl.docId)),
                                !.pc = "set"]
            /\ UNCHANGED <<secret, now, bucket, docs, received, issued, cb,
                           applied, onlyofficeUrl, converts, cv, jobs>>
       ELSE BlankThrow

\* The fields /create-blank merges into the record.
BlankRecord(r) == [docxPath |-> ObjectPath(r.docId), docxUrl |-> r.signedUrl]

\* await docs.doc(docId).set(..., {merge: true}) returns or rejects; then
\* res.json({ok: true, docxPath, docxUrl}).
BlankSet(ok) ==
    /\ bl.pc = "set"
    /\ IF ok
       THEN /\ docs' = SetMerge(docs, bl.docId, BlankRecord(bl))
            /\ bl' = BlankRespond(bl, ConvertResponse(200, "", <<>>, <<>>,
                                      ObjectPath(bl.docId), bl.signedUrl))
            /\ UNCHANGED <<secret, now, bucket, received, issued, cb, applied,
                           onlyofficeUrl, converts, cv, jobs>>
       ELSE BlankThrow

NextBlank ==
    \/ Tick
    \/ \E d \in DocIds \cup {Missing}, u \in {Missing, <<"f">>},
          t \in {Missing, <<"docx">>} : Config(d, u, t)
    \/ \E d \in DocIds \cup {Missing}, t \in Titles, ok \in BOOLEAN :
          BlankReceive(d, t, ok)
    \/ \E ok \in BOOLEAN : BlankSaved(ok)
    \/ \E ok \in BOOLEAN : BlankSigned(ok)
    \/ \E ok \in BOOLEAN : BlankSet(ok)

SpecBlank == Init /\ [][NextBlank]_vars

(* --------------------------- the whole router ------------------------- *)

\* The document page saves the edited title (and html, header, footer,
\* margins) with updateDoc, which needs the record to exist.
EditMetadata(d) ==
    /\ d \in DOMAIN docs
    /\ docs' = SetMerge(docs, d, [title |-> <<"T">>])
    /\ docs' # docs
    /\ UNCHANGED <<secret, now, bucket, received, issued, cb, applied,
                   onlyofficeUrl, converts, cv, jobs, bl>>

\* Records the collection can hold before the router starts: none, or one
\* for document "a" that carries fields no handler of the router writes.
StoredDocs ==
    {<<>>, [d \in {<<"a">>} |-> [ownerUid |-> <<"o">>, version |-> 3]]}

InitStored ==
    /\ bl = IdleBlank
    /\ secret = <<>>
    /\ now = 0
    /\ bucket = <<>>
    /\ docs \in StoredDocs
    /\ received = 0
    /\ issued = {}
    /\ cb = [i \in CallbackSlots |-> IdleCallback]
    /\ applied = <<>>
    /\ onlyofficeUrl = <<"o">>
    /\ converts = 0
    /\ cv = [i \in ConvertSlots |-> IdleConvert]
    /\ jobs = <<>>

\* The requests for one document, "a", with no secret configured and a
\* converter that settles each job at its first poll.
TheDoc == <<"a">>
Conclusive == {data \in AllReplies : data.endConvert \/ data.error # <<>>}

NextRouter ==
    \/ Tick
    \/ Config(TheDoc, <<"f">>, <<"docx">>)
    \/ \E i \in CallbackSlots, s \in Statuses, u \in DownloadUrls,
          k \in IssuedKeys : CallbackReceive(i, <<>>, s, u, k)
    \/ \E i \in CallbackSlots, ok \in BOOLEAN : CallbackFetched(i, ok)
    \/ \E i \in CallbackSlots, ok \in BOOLEAN : CallbackSaved(i, ok)
    \/ \E i \in CallbackSlots, ok \in BOOLEAN : CallbackSigned(i, ok)
    \/ \E i \in CallbackSlots, ok \in BOOLEAN : CallbackSet(i, ok)
    \/ \E i \in ConvertSlots, u \in PdfUrls : ConvertReceive(i, TheDoc, u, Missing)
    \/ \E i \in ConvertSlots, data \in Conclusive : ConvertPolled(i, FALSE, TRUE, data)
    \/ \E i \in ConvertSlots, ok \in BOOLEAN : ConvertDownloaded(i, FALSE, ok)
    \/ \E i \in ConvertSlots, ok \in BOOLEAN : ConvertSaved(i, ok)
    \/ \E i \in ConvertSlots, ok \in BOOLEAN : ConvertSigned(i, ok)
    \/ \E i \in ConvertSlots, ok \in BOOLEAN : ConvertSet(i, ok)
    \/ \E t \in Titles, ok \in BOOLEAN : BlankReceive(TheDoc, t, ok)
    \/ \E ok \in BOOLEAN : BlankSaved(ok)
    \/ \E ok \in BOOLEAN : BlankSigned(ok)
    \/ \E ok \in BOOLEAN : BlankSet(ok)
    \/ EditMetadata(TheDoc)

SpecRouter == InitStored /\ [][NextRouter]_vars

\* The polling loop beside the other routes: one conversion of "a" against
\* a converter that may keep the job pending for the whole budget, with
\* /config requests and save callbacks arriving at any point of the loop.
Pending == {data \in AllReplies : data.error = <<>>}

NextPolling ==
    \/ Tick
    \/ Config(TheDoc, <<"f">>, <<"docx">>)
    \/ \E i \in CallbackSlots, k \in IssuedKeys :
          CallbackReceive(i, <<>>, 2, <<"u", "1">>, k)
    \/ \E i \in CallbackSlots : CallbackFetched(i, TRUE)
    \/ \E i \in CallbackSlots : CallbackSaved(i, TRUE)
    \/ \E i \in CallbackSlots : CallbackSigned(i, TRUE)
    \/ \E i \in CallbackSlots, ok \in BOOLEAN : CallbackSet(i, ok)
    \/ \E i \in ConvertSlots, u \in PdfUrls : ConvertReceive(i, TheDoc, u, Missing)
    \/ \E i \in ConvertSlots, data \in Pending : ConvertPolled(i, FALSE, TRUE, data)
    \/ \E i \in ConvertSlots : ConvertWake(i)
    \/ \E i \in ConvertSlots : ConvertDownloaded(i, FALSE, TRUE)
    \/ \E i \in ConvertSlots : ConvertSaved(i, TRUE)
    \/ \E i \in ConvertSlots : ConvertSigned(i, TRUE)
    \/ \E i \in ConvertSlots, ok \in BOOLEAN : ConvertSet(i, ok)

SpecPolling == InitStored /\ [][NextPolling]_vars

\* Document ids are opaque strings taken from the request body as they come:
\* one without and one with the character the session key is split at.
PathDocIds == {<<"a">>, <<"a", ":", "b">>}

\* The three routes that write, for these two documents, with no secret
\* configured and a converter that settles each job at its first poll.
NextPaths ==
    \/ \E d \in PathDocIds : Config(d, <<"f">>, <<"docx">>)
    \/ \E i \in CallbackSlots, s \in {2, 6}, u \in DownloadUrls,
          k \in IssuedKeys : CallbackReceive(i, <<>>, s, u, k)
    \/ \E i \in CallbackSlots, ok \in BOOLEAN : CallbackFetched(i, ok)
    \/ \E i \in CallbackSlots, ok \in BOOLEAN : CallbackSaved(i, ok)
    \/ \E i \in CallbackSlots, ok \in BOOLEAN : CallbackSigned(i, ok)
    \/ \E i \in CallbackSlots, ok \in BOOLEAN : CallbackSet(i, ok)
    \/ \E i \in ConvertSlots, d \in PathDocIds, u \in PdfUrls :
          ConvertReceive(i, d, u, Missing)
    \/ \E i \in ConvertSlots, data \in Conclusive : ConvertPolled(i, FALSE, TRUE, data)
    \/ \E i \in ConvertSlots, ok \in BOOLEAN : ConvertDownloaded(i, FALSE, ok)
    \/ \E i \in ConvertSlots, ok \in BOOLEAN : ConvertSaved(i, ok)
    \/ \E i \in ConvertSlots, ok \in BOOLEAN : ConvertSigned(i, ok)
    \/ \E i \in ConvertSlots, ok \in BOOLEAN : ConvertSet(i, ok)
    \/ \E d \in PathDocIds, t \in Titles, ok \in BOOLEAN : BlankReceive(d, t, ok)
    \/ \E ok \in BOOLEAN : BlankSaved(ok)
    \/ \E ok \in BOOLEAN : BlankSigned(ok)
    \/ \E ok \in BOOLEAN : BlankSet(ok)

SpecPaths == InitStored /\ [][NextPaths]_vars

\* The server starts again after a conversion of "a" stopped between its
\* blob write and its record update: the bucket holds the converted bytes,
\* the record was never written, and the converter still knows the job.
Interrupted ==
    [bucket |-> Save(<<>>, ObjectPath(TheDoc), "DOCX"),
     jobs |-> Save(<<>>, ConversionKey(TheDoc, 0), "done")]

InitRecover ==
    /\ bl = IdleBlank
    /\ secret = <<>>
    /\ now = 0
    /\ \/ bucket = <<>> /\ jobs = <<>>
       \/ bucket = Interrupted.bucket /\ jobs = Interrupted.jobs
    /\ docs = <<>>
    /\ received = 0
    /\ issued = {}
    /\ cb = [i \in CallbackSlots |-> IdleCallback]
    /\ applied = <<>>
    /\ onlyofficeUrl = <<"o">>
    /\ converts = 0
    /\ cv = [i \in ConvertSlots |-> IdleConvert]

SpecRecover == InitRecover /\ [][NextConvert]_vars

\* The two routes that make keys, at any reading of the clock, and a
\* /callback that is handed any key made so far, of either kind.
ConversionKeys == DOMAIN jobs

NextKeys ==
    \/ Tick
    \/ \E d \in PathDocIds : Config(d, <<"f">>, <<"docx">>)
    \/ \E i \in ConvertSlots, d \in PathDocIds, u \in PdfUrls :
          ConvertReceive(i, d, u, Missing)
    \/ \E i \in ConvertSlots, data \in Conclusive : ConvertPolled(i, FALSE, TRUE, data)
    \/ \E i \in ConvertSlots : ConvertDownloaded(i, FALSE, FALSE)
    \/ \E i \in CallbackSlots, k \in IssuedKeys \cup ConversionKeys :
          CallbackReceive(i, <<>>, 2, <<"u", "1">>, k)
    \/ \E i \in CallbackSlots : CallbackFetched(i, FALSE)

SpecKeys == InitStored /\ [][NextKeys]_vars

\* /callback with a richer choice of Authorization headers: a signed token
\* with a fourth part after it, a token without a head, the bare scheme.
TokenHeaders ==
    AuthHeaders
      \cup { <<"Bearer ">> \o signJwt(<<"P">>, <<"k", "1">>) \o <<".", "x">>,
             <<"Bearer ">> \o Tail(signJwt(<<"P">>, <<"k", "1">>)),
             <<"Bearer ">> }

\* The bodies sent with them: a status that saves and one that does not,
\* with and without a url, with and without a key.
TokenStatuses == {2, 4}
TokenUrls == {<<"u", "1">>, Missing}

NextVerify ==
    \/ \E d \in DocIds : Config(d, <<"f">>, <<"docx">>)
    \/ \E i \in CallbackSlots, a \in TokenHeaders, s \in TokenStatuses,
          u \in TokenUrls, k \in IssuedKeys \cup {Missing} :
          CallbackReceive(i, a, s, u, k)
    \/ \E i \in CallbackSlots, ok \in BOOLEAN : CallbackFetched(i, ok)
    \/ \E i \in CallbackSlots, ok \in BOOLEAN : CallbackSaved(i, ok)
    \/ \E i \in CallbackSlots, ok \in BOOLEAN : CallbackSigned(i, ok)
    \/ \E i \in CallbackSlots, ok \in BOOLEAN : CallbackSet(i, ok)

SpecVerify == Init /\ [][NextVerify]_vars

\* Every route, with every await of every handler returning or failing and
\* the converter answering as it likes.  An await that has been issued
\* settles: the steps that continue a request are fair; the arrival of a
\* request is not.
CallbackContinue(i) ==
    \/ \E ok \in BOOLEAN : CallbackFetched(i, ok)
    \/ \E ok \in BOOLEAN : CallbackSaved(i, ok)
    \/ \E ok \in BOOLEAN : CallbackSigned(i, ok)
    \/ \E ok \in BOOLEAN : CallbackSet(i, ok)
ConvertContinue(i) ==
    \/ \E threw \in BOOLEAN, ok \in BOOLEAN, data \in AllReplies :
          ConvertPolled(i, threw, ok, data)
    \/ ConvertWake(i)
    \/ \E threw \in BOOLEAN, ok \in BOOLEAN : ConvertDownloaded(i, threw, ok)
    \/ \E ok \in BOOLEAN : ConvertSaved(i, ok)
    \/ \E ok \in BOOLEAN : ConvertSigned(i, ok)
    \/ \E ok \in BOOLEAN : ConvertSet(i, ok)
BlankContinue ==
    \/ \E ok \in BOOLEAN : BlankSaved(ok)
    \/ \E ok \in BOOLEAN : BlankSigned(ok)
    \/ \E ok \in BOOLEAN : BlankSet(ok)

NextLive ==
    \/ \E d \in {TheDoc, Missing} : Config(d, <<"f">>, <<"docx">>)
    \/ \E i \in CallbackSlots, s \in Statuses, u \in {<<"u", "1">>, Missing},
          k \in IssuedKeys : CallbackReceive(i, <<>>, s, u, k)
    \/ \E i \in CallbackSlots : CallbackContinue(i)
    \/ \E i \in ConvertSlots, d \in {TheDoc, Missing}, u \in PdfUrls :
          ConvertReceive(i, d, u, Missing)
    \/ \E i \in ConvertSlots : ConvertContinue(i)
    \/ \E d \in {TheDoc, Missing}, ok \in BOOLEAN : BlankReceive(d, Missing, ok)
    \/ BlankContinue

InitLive == InitStored /\ docs = <<>>

SpecLive ==
    /\ InitLive
    /\ [][NextLive]_vars
    /\ \A i \in CallbackSlots : WF_vars(CallbackContinue(i))
    /\ \A i \in ConvertSlots : WF_vars(ConvertContinue(i))
    /\ WF_vars(BlankContinue)

(* ------------------------------ claims -------------------------------- *)

CallbackInFlight(i) == cb[i].pc \in {"fetch", "save", "sign", "set"}
Unauthorized == [code |-> 403, error |-> 1]
Acknowledged == [code |-> 200, error |-> 0]

\* C1 (as claimed): once every callback handler has finished, each
\* document's version is its initial version (none, read as 0) plus the
\* number of save callbacks applied to it.
C1_VersionAdvancesPerSave ==
    (\A i \in CallbackSlots : ~CallbackInFlight(i)) =>
        \A d \in DocIds : RecordVersion(d) = 0 + Applied(d)

\* C2 (as claimed): two /config responses for the same document with no
\* save applied between them carry the same session key.
C2_KeyDeterminism ==
    \A e1, e2 \in issued :
        (e1.docId = e2.docId /\ e1.applied = e2.applied) => e1.key = e2.key

\* C3 (as claimed): a session key returned after a save was applied to the
\* document differs from every key returned for it before that save.
C3_KeyFreshness ==
    \A e1, e2 \in issued :
        (e1.docId = e2.docId /\ e1.applied < e2.applied) => e1.key # e2.key

\* The step in which callback i's blob write lands.
BlobWriteLands(i) == cb[i].pc = "save" /\ cb'[i].pc = "sign"

\* C4 (as claimed): the blob write of a stale callback never replaces the
\* bytes a later save left at the document's path.
C4_StaleNeverOverwrites ==
    [][\A i \in CallbackSlots :
          (Stale(i) /\ BlobWriteLands(i)
             /\ ObjectPath(cb[i].docId) \in DOMAIN bucket)
          => bucket'[ObjectPath(cb[i].docId)] = bucket[ObjectPath(cb[i].docId)]]_vars

\* C4 (amended): a stale callback is applied like any other (last write
\* wins): when its blob write lands, the document's path holds the stale
\* callback's bytes and no other path changes.
C4_StaleCallbackOverwrites ==
    [][\A i \in CallbackSlots :
          (Stale(i) /\ BlobWriteLands(i))
          => /\ bucket'[ObjectPath(cb[i].docId)] = cb[i].buf
             /\ \A p \in DOMAIN bucket \ {ObjectPath(cb[i].docId)} :
                   bucket'[p] = bucket[p]]_vars

\* C4 witness: a stale callback has replaced the bytes of the later save.
C4_Witness ==
    \E i \in CallbackSlots :
        /\ cb[i].pc = "sign" /\ Stale(i)
        /\ bucket[ObjectPath(cb[i].docId)] = cb[i].buf
        /\ cb[i].buf = "B2"
        /\ \E j \in CallbackSlots : j # i /\ cb[j].pc = "done"

\* A credential that is missing (no Bearer token) or whose signature part is
\* not the keyed hash of its first two parts under the secret.
BadCredential(auth, secret_) ==
    \/ auth = <<>>
    \/ auth[1] # "Bearer "
    \/ LET parts == Split(Tail(auth), ".")
       IN  Part(parts, 3) # HmacB64Url(secret_, Dotted(Part(parts, 1), Part(parts, 2)))

\* Callback i is answered 403 {error: 1} and nothing is fetched or stored.
Rejected(i) ==
    /\ cb'[i].pc = "done"
    /\ cb'[i].res = <<Unauthorized>>
    /\ bucket' = bucket /\ docs' = docs /\ applied' = applied

\* C5: with a secret configured, a callback with a missing or wrongly signed
\* credential is answered 403 and starts no download, writes no blob and
\* changes no record, whatever its status, url and key.
C5_AuthEnforced ==
    [][(secret # <<>> /\ received' # received /\ issued' = issued) =>
          \A i \in {j \in CallbackSlots : cb'[j].pc \in {"done", "fetch"}} :
             \/ Rejected(i)
             \/ \A a \in {h \in AuthHeaders : BadCredential(h, secret)} :
                   \A s \in Statuses, u \in DownloadUrls \cup {Missing},
                      k \in IssuedKeys \cup {Missing} :
                      ~CallbackReceive(i, a, s, u, k)]_vars

\* C5 witness: a callback was rejected under a configured secret while a
\* session key it could have carried was issued.
C5_Witness ==
    /\ secret # <<>>
    /\ issued # {}
    /\ \E i \in CallbackSlots : cb[i].res = <<Unauthorized>>

\* C6 (as claimed): every response to a callback that passed the credential
\* check is the acknowledgement {error: 0}.
C6_AlwaysAcknowledged ==
    \A i \in CallbackSlots : \A n \in 1..Len(cb[i].res) :
        cb[i].res[n] = Unauthorized \/ cb[i].res[n] = Acknowledged

\* C7 (as claimed): a callback handler that has started its download, blob
\* write or record update has already sent its response.
C7_AckBeforePersistence ==
    \A i \in CallbackSlots : CallbackInFlight(i) => cb[i].res # <<>>

Timeout == Failure(504, "Conversion timeout (try again)")
Answers(i, resp) == cv'[i].pc = "done" /\ cv[i].pc # "done" /\ cv'[i].res = <<resp>>

\* C8 (as claimed): a conversion request never submits more than 40 times;
\* after a sleep it submits again while attempts remain and answers with the
\* timeout once 40 are used; and it never answers with the timeout while
\* attempts remain.
C8_TimeoutExactlyAtBudget ==
    [][\A i \in ConvertSlots :
          /\ cv'[i].polls <= PollBudget
          /\ (cv[i].pc = "sleep" /\ cv'[i] # cv[i]) =>
                IF cv[i].polls = PollBudget
                THEN Answers(i, Timeout)
                ELSE cv'[i].pc = "poll" /\ cv'[i].polls = cv[i].polls + 1
          /\ Answers(i, Timeout) => cv[i].polls = PollBudget]_vars

ConversionError(data) ==
    ConvertResponse(500, "Conversion error code", data.error, <<data>>, <<>>, <<>>)

\* Once answered, a request sends nothing more and changes nothing.
AnsweredIsFinal ==
    \A i \in ConvertSlots :
        (cv[i].pc = "done" /\ converts' = converts) =>
            cv' = cv /\ jobs' = jobs /\ bucket' = bucket /\ docs' = docs

\* C9 (as claimed): a poll response carrying a numeric error code c ends the
\* request at that attempt with the conversion error carrying c, with no
\* further poll, no blob write and no record change.
C9_AnyErrorCodeTerminates ==
    [][/\ \A i \in ConvertSlots, ok \in BOOLEAN, data \in AllReplies :
             (data.error # <<>> /\ ConvertPolled(i, FALSE, ok, data))
             => /\ Answers(i, ConversionError(data))
                /\ bucket' = bucket /\ docs' = docs
       /\ AnsweredIsFinal]_vars

\* C9 (amended): a poll response with a success HTTP status carrying a
\* non-zero numeric error code c ends the request at that attempt with the
\* conversion error carrying c, with no further poll, no blob write and no
\* record change.
C9_ErrorCodeTerminates ==
    [][/\ \A i \in ConvertSlots, data \in AllReplies :
             (data.error # <<>> /\ data.error[1] # 0
                /\ ConvertPolled(i, FALSE, TRUE, data))
             => /\ Answers(i, ConversionError(data))
                /\ bucket' = bucket /\ docs' = docs
       /\ AnsweredIsFinal]_vars

\* C9 witness: a request was answered with the conversion error carrying 4.
C9_Witness ==
    \E i \in ConvertSlots :
        /\ cv[i].pc = "done"
        /\ cv[i].res = <<ConversionError(Reply(<<4>>, FALSE, Missing))>>
        /\ bucket = <<>> /\ docs = <<>>

\* C10: every poll of a request submits the payload built before the loop,
\* the converter starts at most one job per request, and the result the
\* request goes on to download is the one the job for its key produced.
C10_OneJobPerRequest ==
    /\ Cardinality(DOMAIN jobs) <= converts
    /\ \A i \in ConvertSlots :
          /\ cv[i].sent \subseteq {cv[i].payload}
          /\ cv[i].started <= 1
          /\ cv[i].pc \in {"download", "save", "sign", "set"} =>
                /\ cv[i].fileUrl = ResultUrl(cv[i].payload.key)
                /\ jobs[cv[i].payload.key] = "done"

\* C10 witness: after several polls, at a later clock reading than the
\* first, the request downloads the result of the one job it started.
C10_Witness ==
    \E i \in ConvertSlots :
        /\ cv[i].pc = "download" /\ cv[i].polls >= 3 /\ cv[i].started = 1
        /\ cv[i].payload.key # ConversionKey(cv[i].docId, now)

VersionOf(coll, id) ==
    IF id \in DOMAIN coll /\ "version" \in DOMAIN coll[id]
    THEN coll[id]["version"] ELSE 0

\* The step in which callback i's record update lands and it is answered.
RecordUpdateLands(i) == cb[i].pc = "set" /\ cb'[i].branch = "saved"

\* C11 (as claimed): when a save callback has been applied, the record's
\* version is one higher than before its record update, and, no callback
\* having run beside it, the blob at the document's path holds the bytes
\* served at the callback's download URL.
C11_SaveRoundTrip ==
    [][\A i \in CallbackSlots :
          RecordUpdateLands(i) =>
             /\ VersionOf(docs', cb[i].docId) = VersionOf(docs, cb[i].docId) + 1
             /\ (\A j \in CallbackSlots \ {i} : cb[j].pc = "idle") =>
                   bucket'[ObjectPath(cb[i].docId)] = Served(cb[i].url)]_vars

\* A credential the handler is meant to accept under the secret.
Accepted(auth, secret_) == secret_ = <<>> \/ ~BadCredential(auth, secret_)

\* Callback i is answered {error: 0} and nothing is fetched or stored.
AcknowledgedOnly(i) ==
    /\ cb'[i].pc = "done"
    /\ cb'[i].res = <<Acknowledged>>
    /\ bucket' = bucket /\ docs' = docs /\ applied' = applied

\* C12: an accepted callback whose status is neither 2 nor 6 is answered
\* {error: 0} and leaves every record and the blob store unchanged, whatever
\* its url and key.
C12_IgnoredStatus ==
    [][(received' # received /\ issued' = issued) =>
          \A i \in {j \in CallbackSlots : cb'[j].pc \in {"done", "fetch"}} :
             \/ AcknowledgedOnly(i)
             \/ \A a \in {h \in AuthHeaders : Accepted(h, secret)} :
                   \A s \in Statuses \ {2, 6}, u \in DownloadUrls \cup {Missing},
                      k \in IssuedKeys \cup {Missing} :
                      ~CallbackReceive(i, a, s, u, k)]_vars

\* C12 witness: a callback with an ignored status was acknowledged while the
\* store held a saved document, which it left in place.
C12_Witness ==
    \E i \in CallbackSlots :
        /\ cb[i].branch = "ignored" /\ cb[i].res = <<Acknowledged>>
        /\ \E d \in DocIds : Applied(d) = 1 /\ ObjectPath(d) \in DOMAIN bucket

\* The record of d names a stored file.
HasFile(d) == d \in DOMAIN docs /\ "docxPath" \in DOMAIN docs[d] /\ docs[d].docxPath # <<>>

BlankCreated ==
    /\ bl.pc = "done"
    /\ bl.res = <<ConvertResponse(200, "", <<>>, <<>>,
                                  ObjectPath(bl.docId), SignedUrl(ObjectPath(bl.docId)))>>

\* C13 (as claimed): once a blank document has been created its record has
\* version 1 and a non-empty file path, and the first /config response for a
\* document that only blank creation has touched carries the key "<id>:v1".
C13_BlankStartsAtVersionOne ==
    [][/\ BlankCreated => (RecordVersion(bl.docId) = 1 /\ HasFile(bl.docId))
       /\ \A d \in DocIds, u \in {<<"f">>}, t \in {<<"docx">>} :
             (HasFile(d) /\ (\A e \in issued : e.docId # d) /\ Config(d, u, t))
             => \E e \in issued' : e.docId = d /\ e.key = d \o <<":", "v", "1">>]_vars

\* C14: no step of blank creation, save callback, conversion or metadata
\* edit lowers the version a document's record carries; in particular the
\* record update of a conversion leaves the version as it was.
C14_VersionNeverDecreases ==
    [][\A d \in DocIds : VersionOf(docs', d) >= VersionOf(docs, d)]_vars

\* C14 witness: a document whose record carried version 3 was given a file,
\* had a save applied and was then converted again, and still carries 3.
C14_Witness ==
    /\ VersionOf(docs, TheDoc) = 3
    /\ Applied(TheDoc) >= 1
    /\ "sourcePdfUrl" \in DOMAIN docs[TheDoc]
    /\ \E i \in ConvertSlots :
          cv[i].res = <<ConvertResponse(200, "", <<>>, <<>>, ObjectPath(TheDoc),
                                        SignedUrl(ObjectPath(TheDoc)))>>

\* C15 (as claimed): a /config request for a document whose record is
\* absent, or names no file, returns no session key.
C15_ConfigNeedsRecordWithFile ==
    [][\A d \in DocIds \cup {Missing}, u \in {Missing, <<"f">>},
          t \in {Missing, <<"docx">>} :
          (~HasFile(d) /\ Config(d, u, t)) => issued' = issued]_vars

\* C16: a /config request, answered with a configuration or with the 400,
\* leaves the blob store and every record unchanged.
C16_ConfigIsPureRead ==
    [][(bucket' # bucket \/ docs' # docs) =>
          \A d \in DocIds \cup {Missing}, u \in {Missing, <<"f">>},
             t \in {Missing, <<"docx">>} : ~Config(d, u, t)]_vars

\* C16 witness: /config has answered for a document after a save was applied
\* to it, and the stored blob and record are those the save left.
C16_Witness ==
    \E e \in issued :
        /\ e.applied = 1 /\ Applied(e.docId) = 1
        /\ HasFile(e.docId)
        /\ ObjectPath(e.docId) \in DOMAIN bucket
        /\ DOMAIN docs[e.docId] = {"docxPath", "docxUrl"}

\* C17: an accepted callback with status 2 or 6 that lacks a url or lacks a
\* key is answered {error: 0}, starts no download and leaves every record
\* and the blob store unchanged.
C17_IncompleteSaveIsNoOp ==
    [][(received' # received /\ issued' = issued) =>
          \A i \in {j \in CallbackSlots : cb'[j].pc \in {"done", "fetch"}} :
             \/ AcknowledgedOnly(i)
             \/ \A a \in {h \in AuthHeaders : Accepted(h, secret)}, s \in {2, 6} :
                   /\ \A k \in IssuedKeys \cup {Missing} :
                         ~CallbackReceive(i, a, s, Missing, k)
                   /\ \A u \in DownloadUrls :
                         ~CallbackReceive(i, a, s, u, Missing)]_vars

\* C17 witness: a save callback without url or key was acknowledged while
\* the store held a saved document, which it left in place.
C17_Witness ==
    \E i \in CallbackSlots :
        /\ cb[i].branch = "incomplete" /\ cb[i].res = <<Acknowledged>>
        /\ \E d \in DocIds : Applied(d) = 1 /\ ObjectPath(d) \in DOMAIN bucket

\* What status, url and key dictate for callback i once it is received.
Dictated(i, s, u, k) ==
    IF s \notin {2, 6} \/ u = Missing \/ k = Missing
    THEN AcknowledgedOnly(i)
    ELSE /\ cb'[i].pc = "fetch" /\ cb'[i].url = u /\ cb'[i].key = k
         /\ cb'[i].res = <<>>

\* C18: with no secret configured a callback is never answered 403: with no
\* credential or with any, it is handled as its status, url and key dictate.
C18_NoSecretTrustsCaller ==
    [][(secret = <<>> /\ received' # received /\ issued' = issued) =>
          \A i \in {j \in CallbackSlots : cb'[j].pc \in {"done", "fetch"}} :
             \A s \in Statuses, u \in DownloadUrls \cup {Missing},
                k \in IssuedKeys \cup {Missing} :
                \/ Dictated(i, s, u, k)
                \/ \A a \in AuthHeaders : ~CallbackReceive(i, a, s, u, k)]_vars

\* C18 witness: with no secret configured, a save callback has been applied
\* and none was answered 403.
C18_Witness ==
    /\ secret = <<>>
    /\ \E i \in CallbackSlots : cb[i].branch = "saved"
    /\ \A i \in CallbackSlots : cb[i].res # <<Unauthorized>>

\* C19: a save callback whose key was issued before a save since applied to
\* its document is applied all the same: its blob write and its record
\* update are refused by nothing but a failure of the storage call itself.
\* The write puts its bytes at the document's path, the update puts the path
\* and the signed URL in the record.
C19_MismatchedKeyStillApplied ==
    [][\A i \in CallbackSlots :
          Stale(i) =>
             /\ (cb[i].pc = "save" /\ cb'[i] # cb[i]) =>
                   \/ cb'[i].branch = "catch"
                   \/ /\ BlobWriteLands(i)
                      /\ bucket'[ObjectPath(cb[i].docId)] = cb[i].buf
             /\ (cb[i].pc = "set" /\ cb'[i] # cb[i]) =>
                   \/ cb'[i].branch = "catch"
                   \/ /\ RecordUpdateLands(i)
                      /\ docs'[cb[i].docId].docxPath = ObjectPath(cb[i].docId)
                      /\ docs'[cb[i].docId].docxUrl = cb[i].signedUrl
                      /\ applied'[cb[i].docId] = Applied(cb[i].docId) + 1]_vars

\* C19 witness: two saves were applied to a document whose every key was
\* issued before the first of them, so the second was applied on a stale key.
C19_Witness ==
    \E d \in DocIds :
        /\ Applied(d) = 2
        /\ \E e \in issued : e.docId = d
        /\ \A e \in issued : e.docId = d => e.applied = 0
        /\ \A i \in CallbackSlots : cb[i].pc = "done" /\ cb[i].branch = "saved"

HttpFailure(data) ==
    ConvertResponse(500, "Converter HTTP", <<>>, <<data>>, <<>>, <<>>)

\* C20: a poll response with a non-success HTTP status ends the request at
\* that attempt with the HTTP failure, whatever its body reports (an error
\* code, endConvert), with no blob write and no record change; a success
\* response carrying both an error code and endConvert ends it with the
\* conversion error; and once answered the request sends no further poll.
C20_HttpStatusCheckedFirst ==
    [][/\ \A i \in ConvertSlots, data \in AllReplies :
             /\ ConvertPolled(i, FALSE, FALSE, data)
                => /\ Answers(i, HttpFailure(data))
                   /\ bucket' = bucket /\ docs' = docs
             /\ (data.endConvert /\ data.error \notin {<<>>, <<0>>}
                   /\ ConvertPolled(i, FALSE, TRUE, data))
                => /\ Answers(i, ConversionError(data))
                   /\ bucket' = bucket /\ docs' = docs
       /\ AnsweredIsFinal]_vars

\* C20 witness: a request was answered with the HTTP failure for a response
\* that reported endConvert with a result URL, and nothing was stored.
C20_Witness ==
    \E i \in ConvertSlots, k \in DOMAIN jobs :
        /\ cv[i].pc = "done"
        /\ cv[i].res = <<HttpFailure(Reply(<<>>, TRUE, ResultUrl(k)))>>
        /\ bucket = <<>> /\ docs = <<>>

\* C21 (as claimed): the blob at a document's path is changed by nothing but
\* a callback's blob write, which leaves there the bytes of that callback, so
\* that of two concurrent callbacks the one whose write lands last decides
\* the blob; and each callback's record update advances the version by one.
C21_ConcurrentSavesCountTwice ==
    [][/\ \A i \in CallbackSlots :
             BlobWriteLands(i) => bucket'[ObjectPath(cb[i].docId)] = cb[i].buf
       /\ bucket' # bucket => \E i \in CallbackSlots : BlobWriteLands(i)
       /\ \A i \in CallbackSlots :
             RecordUpdateLands(i) =>
                VersionOf(docs', cb[i].docId) = VersionOf(docs, cb[i].docId) + 1]_vars

\* C22: the polling loop holds no lock.  While a conversion awaits a poll
\* response or sleeps between two polls, a /config request and a save
\* callback can arrive and every callback under way can take its next step;
\* and no step of /config or of a callback moves the conversion, so these
\* requests are handled to completion while the conversion stays suspended.
Suspended(i) == cv[i].pc \in {"poll", "sleep"}
CallbackStep(j) ==
    \/ cb[j].pc = "fetch" /\ ENABLED CallbackFetched(j, TRUE)
    \/ cb[j].pc = "save" /\ ENABLED CallbackSaved(j, TRUE)
    \/ cb[j].pc = "sign" /\ ENABLED CallbackSigned(j, TRUE)
    \/ cb[j].pc = "set" /\ ENABLED CallbackSet(j, TRUE)
C22_PollingHoldsNoLock ==
    /\ [](\A i \in ConvertSlots : Suspended(i) =>
            /\ received < MaxRequests => ENABLED Config(TheDoc, <<"f">>, <<"docx">>)
            /\ (/\ received < MaxRequests
                /\ IssuedKeys # {}
                /\ \E j \in CallbackSlots : ~CallbackInFlight(j))
               => ENABLED (\E j \in CallbackSlots, k \in IssuedKeys :
                              CallbackReceive(j, <<>>, 2, <<"u", "1">>, k))
            /\ \A j \in CallbackSlots : CallbackInFlight(j) => CallbackStep(j))
    /\ [][(cb' # cb \/ issued' # issued) => cv' = cv]_vars
\* A /config request arrived after the conversion began and its callback was
\* saved, all while the conversion sleeps between two polls.
C22_Witness ==
    \E i \in ConvertSlots, j \in CallbackSlots :
       /\ cv[i].pc = "sleep" /\ cv[i].i >= 1
       /\ cv[i].payload.key = ConversionKey(TheDoc, 0)
       /\ issued = {[docId |-> TheDoc, key |-> ConfigKey(TheDoc, 1), applied |-> 0]}
       /\ cb[j].branch = "saved"
       /\ HasFile(TheDoc) /\ bucket[ObjectPath(TheDoc)] = "B1"

\* C23 (as claimed): every blob write of /create-blank, of a conversion and
\* of a save callback for document d lands at onlyoffice/<d>/latest.docx and
\* leaves every other path as it was, nothing else changes the bucket, and
\* the path a record carries is that same path, before and after every step.
\* A callback is for the document its key was issued for.
FixedPath(d) == <<"onlyoffice/">> \o d \o <<"/latest.docx">>
WritesFor(d) ==
    \/ bl.pc = "save" /\ bl'.pc = "sign" /\ bl.docId = d
    \/ \E i \in ConvertSlots : cv[i].pc = "save" /\ cv'[i].pc = "sign" /\ cv[i].docId = d
    \/ \E i \in CallbackSlots :
          /\ BlobWriteLands(i)
          /\ \E e \in issued : e.key = cb[i].key /\ e.docId = d
ElsewhereUntouched(d) ==
    /\ DOMAIN bucket \subseteq DOMAIN bucket'
    /\ \A p \in DOMAIN bucket' \ {FixedPath(d)} :
           p \in DOMAIN bucket /\ bucket'[p] = bucket[p]
C23_FixedStoragePath ==
    [][/\ \A d \in PathDocIds :
             WritesFor(d) => FixedPath(d) \in DOMAIN bucket' /\ ElsewhereUntouched(d)
       /\ bucket' # bucket => \E d \in PathDocIds : WritesFor(d)
       /\ \A d \in DOMAIN docs' :
             "docxPath" \in DOMAIN docs'[d] =>
                /\ docs'[d].docxPath = FixedPath(d)
                /\ HasFile(d) => docs'[d].docxPath = docs[d].docxPath]_vars

\* C24 (as claimed): a callback carrying the key /config issued for document
\* d works on d: the document id it parsed out of the key is d.
C24_CorrelationRoundTrip ==
    \A i \in CallbackSlots :
       CallbackInFlight(i) =>
          \A e \in issued : e.key = cb[i].key => cb[i].docId = e.docId

\* C25: a conversion of d that ends in success leaves d's converted bytes at
\* d's path and d's record with that path, its signed URL and the source
\* URL, and leaves no blob outside the documents' paths, whether it started
\* from a clean store or from what a conversion that stopped between its
\* blob write and its record update left behind.
Converted(i, d) ==
    /\ cv[i].pc = "done"
    /\ cv[i].res # <<>>
    /\ cv[i].res[1].code = 200
    /\ cv[i].res[1].docxPath = FixedPath(d)
C25_RerunEqualsSingleRun ==
    \A i \in ConvertSlots, d \in DocIds :
       Converted(i, d) =>
          /\ FixedPath(d) \in DOMAIN bucket
          /\ bucket[FixedPath(d)] = "DOCX"
          /\ DOMAIN bucket \subseteq {FixedPath(x) : x \in DocIds}
          /\ d \in DOMAIN docs
          /\ docs[d] = [docxPath |-> FixedPath(d),
                        docxUrl |-> <<"signed:">> \o FixedPath(d),
                        sourcePdfUrl |-> <<"p">>]
\* The conversion of "a" was run again under a new key, after the
\* interrupted one, and succeeded.
C25_Witness ==
    \E i \in ConvertSlots :
       /\ Converted(i, TheDoc)
       /\ DOMAIN jobs = {ConversionKey(TheDoc, 0), ConversionKey(TheDoc, 1)}
       /\ bucket = Interrupted.bucket

\* C26 (as claimed): no conversion key equals a session key, whatever the
\* documents and the times the two were made at, and the document id
\* /callback parses out of a conversion key is no document's id.
KeysDisjoint ==
    /\ \A e \in issued : e.key \notin ConversionKeys
    /\ \A d1 \in PathDocIds, d2 \in PathDocIds, t \in 0..now :
          /\ ConversionKey(d1, now) # SessionKey(d2, t)
          /\ ConversionKey(d1, t) # SessionKey(d2, now)
C26_KeyNamespacesDisjoint ==
    /\ KeysDisjoint
    /\ \A i \in CallbackSlots :
          (CallbackInFlight(i) /\ cb[i].key \in ConversionKeys)
             => cb[i].docId \notin PathDocIds

\* C27: write before publish.  Every path a handler has stored in a record
\* is the path of a blob that has been written; a record changes only in the
\* last step of a handler that goes on to answer with success; and a step
\* that ends a request in failure leaves every record as it was.
Published(d) == d \in DOMAIN docs /\ "docxPath" \in DOMAIN docs[d]
EndsInFailure ==
    \/ \E i \in CallbackSlots : cb'[i] # cb[i] /\ cb'[i].branch = "catch"
    \/ \E i \in ConvertSlots :
          cv'[i] # cv[i] /\ cv'[i].pc = "done" /\ cv'[i].res[1].code # 200
    \/ bl' # bl /\ bl'.pc = "done" /\ bl'.res[1].code # 200
EndsInSuccess ==
    \/ \E i \in CallbackSlots : cb[i].pc = "set" /\ cb'[i].branch = "saved"
    \/ \E i \in ConvertSlots :
          cv[i].pc = "set" /\ cv'[i].pc = "done" /\ cv'[i].res[1].code = 200
    \/ bl.pc = "set" /\ bl'.pc = "done" /\ bl'.res[1].code = 200
C27_WriteBeforePublish ==
    /\ [](\A d \in DOMAIN docs : Published(d) => docs[d].docxPath \in DOMAIN bucket)
    /\ [][/\ EndsInFailure => docs' = docs
          /\ docs' # docs => EndsInSuccess]_vars
\* One document has its blob and its record; the other's blob was written
\* and its handler then failed, so it has no record.
C27_Witness ==
    /\ Published(<<"a">>) /\ FixedPath(<<"a">>) \in DOMAIN bucket
    /\ FixedPath(<<"a", ":", "b">>) \in DOMAIN bucket
    /\ ~Published(<<"a", ":", "b">>)
    /\ bl.pc = "done" /\ bl.res[1].code = 500

\* C28: a poll response takes the conversion on to the download only if it
\* has endConvert true and a non-empty fileUrl, which is then the URL
\* downloaded; a successful response with endConvert true and no fileUrl
\* ends the request in that same step, polls left or not, with the 504
\* timeout and with bucket and records unchanged.
Complete(data) == data.endConvert /\ data.fileUrl # Missing
C28_SuccessNeedsResultUrl ==
    [][\A i \in ConvertSlots :
         /\ (cv'[i].pc = "download" /\ cv[i].pc # "download") =>
               /\ cv[i].pc = "poll"
               /\ cv'[i].fileUrl # Missing
               /\ \A ok \in BOOLEAN, data \in {r \in AllReplies : ~Complete(r)} :
                     ~ConvertPolled(i, FALSE, ok, data)
         /\ cv[i].pc = "poll" =>
               \A data \in {r \in AllReplies :
                              /\ r.endConvert /\ r.fileUrl = Missing
                              /\ r.error \in {<<>>, <<0>>}} :
                  ConvertPolled(i, FALSE, TRUE, data) =>
                     /\ Answers(i, Timeout)
                     /\ bucket' = bucket /\ docs' = docs]_vars
\* The converter answered endConvert without a URL and the request was
\* answered with the timeout.
C28_Witness ==
    \E i \in ConvertSlots, k \in DOMAIN jobs :
       /\ jobs[k] = "doneNoUrl"
       /\ cv[i].pc = "done" /\ cv[i].res = <<Timeout>>
       /\ bucket = <<>> /\ docs = <<>>

\* C29 (as claimed): with a secret configured, a /callback request is
\* accepted exactly when its Authorization header is "Bearer " followed by
\* three non-empty dot-separated parts of which the third is the keyed hash
\* of the first two under the secret, whatever its body; so a token signJwt
\* made under the secret is accepted and one made under another is not.
ThreeParts(auth, secret_) ==
    /\ Len(auth) > 0 /\ auth[1] = "Bearer "
    /\ LET parts == Split(Tail(auth), ".")
       IN  /\ Len(parts) = 3
           /\ \A n \in 1..3 : parts[n] # <<>>
           /\ parts[3] = HmacB64Url(secret_, parts[1] \o <<".">> \o parts[2])
LeadingThreeParts(auth, secret_) ==
    /\ Len(auth) > 0 /\ auth[1] = "Bearer "
    /\ LET parts == Split(Tail(auth), ".")
       IN  /\ Len(parts) >= 3
           /\ \A n \in 1..3 : parts[n] # <<>>
           /\ parts[3] = HmacB64Url(secret_, parts[1] \o <<".">> \o parts[2])
C29_AcceptedIffThreeSignedParts ==
    [][(secret # <<>> /\ received' # received /\ issued' = issued) =>
          \A i \in {j \in CallbackSlots : cb'[j].pc \in {"done", "fetch"}} :
             \A a \in TokenHeaders, s \in TokenStatuses,
                u \in TokenUrls, k \in IssuedKeys \cup {Missing} :
                CallbackReceive(i, a, s, u, k) =>
                   (Rejected(i) <=> ~ThreeParts(a, secret))]_vars

\* C29 (amended): with a secret configured, a /callback request is accepted
\* exactly when its Authorization header is "Bearer " followed by at least
\* three dot-separated parts of which the first three are non-empty and the
\* third is the keyed hash of the first two under the secret; parts after
\* the third are not looked at, and neither is the body.  A token signJwt
\* made under the secret is accepted, one made under another secret is not.
C29_AcceptedIffLeadingPartsSigned ==
    [][(secret # <<>> /\ received' # received /\ issued' = issued) =>
          \A i \in {j \in CallbackSlots : cb'[j].pc \in {"done", "fetch"}} :
             /\ \/ Rejected(i)
                \/ \A a \in {h \in TokenHeaders : ~LeadingThreeParts(h, secret)} :
                      \A s \in TokenStatuses, u \in TokenUrls,
                         k \in IssuedKeys \cup {Missing} :
                         ~CallbackReceive(i, a, s, u, k)
             /\ \/ ~Rejected(i)
                \/ \A a \in {h \in TokenHeaders : LeadingThreeParts(h, secret)} :
                      \A s \in TokenStatuses, u \in TokenUrls,
                         k \in IssuedKeys \cup {Missing} :
                         ~CallbackReceive(i, a, s, u, k)
       /\ \A body \in {<<"P">>, <<"Q">>} :
             /\ LeadingThreeParts(<<"Bearer ">> \o signJwt(body, secret), secret)
             /\ verifyOnlyOfficeJwt(<<"Bearer ">> \o signJwt(body, secret), secret)
             /\ ~verifyOnlyOfficeJwt(<<"Bearer ">> \o signJwt(body, OtherSecret), secret)]_vars
\* Under a configured secret one request was turned away and another was
\* accepted and went on to save.
C29_Witness ==
    /\ secret # <<>>
    /\ \E i \in CallbackSlots, j \in CallbackSlots :
          /\ cb[i].branch = "rejected" /\ cb[i].res = <<Unauthorized>>
          /\ cb[j].branch = "saved"

\* C30: one response per request.  A request that is under way has been
\* sent no response and a request that is over has been sent exactly one,
\* for the /callback, /convert/pdf-to-docx and /create-blank handlers; a
\* /config request is answered in the step it arrives in and leaves nothing
\* under way; and, however the awaits settle, again and again no request is
\* under way: every request that was is over, which it can only be by
\* having been answered.
UnderWay(r) == r.pc \notin {"idle", "done"}
Over(r) == r.pc = "done"
OneResponse(r) ==
    /\ UnderWay(r) => r.res = <<>>
    /\ Over(r) => Len(r.res) = 1
    /\ r.pc = "idle" => r.res = <<>>
====
